---- MODULE Spec2Model ----
(***************************************************************************)
(* A model of the tline transmission-line simulator: the chunked driver    *)
(* Simulation::new / Simulation::run (src/src/simulation.rs), the FDTD     *)
(* stepping loop FdtdSolver::compute (src/src/fdtd/fdtd_solver.rs) and the *)
(* circuit components it calls (src/src/fdtd/components/).                 *)
(*                                                                         *)
(* Numbers.  Every f32 of the program is an integer count of quanta, with  *)
(* 1.0 == One quanta.  An f32 operation is the exact operation followed by *)
(* one rounding to MantBits significant bits, to nearest, ties to even     *)
(* (IEEE 754 binary32 has 24), on the grid of whole quanta: the format is  *)
(* binary32 with its exponent range cut at the quantum.  Sums, differences *)
(* and products of values that binary32 holds exactly round exactly as in  *)
(* the program.                                                            *)
(***************************************************************************)
EXTENDS Integers, Sequences, FiniteSets, TLC

(***************************************************************************)
(* Bounds of the model.                                                    *)
(***************************************************************************)
\* the number of fractional bits of the quantum: 1.0 is 2^FracBits quanta
FracBits == 4
\* the largest number of line cells (TransmissionLine::npoints) of a run
MaxCells == 2
\* the largest number of time steps the runs of one Simulation are asked for,
\* all calls of Simulation::run together
MaxSteps == 3
\* The element cap of simulation.rs:116 as the array-carrying specification
\* uses it: the program's cap (ElementCap below) splits a run into batches
\* only for lines of tens of millions of cells, so the runs that carry the
\* arrays use a cap of a few elements to make batches of 1 and 2 steps.
ScaledCap == 4
\* the largest number of batches of a run of the batch-loop specification
MaxBatches == 4
\* the number of steps after which the matched line is taken as settled
SettleSteps == 32

(***************************************************************************)
(* Program constants.                                                      *)
(***************************************************************************)
\* significand bits of f32 (every number of the program is an f32)
MantBits == 24
\* the element cap 100_000_000 of Simulation::run
ElementCap == 100000000

(***************************************************************************)
(* f32 arithmetic.                                                         *)
(***************************************************************************)
RECURSIVE Pow2(_)
Pow2(n) == IF n = 0 THEN 1 ELSE 2 * Pow2(n - 1)

One == Pow2(FracBits)

Abs(x) == IF x < 0 THEN -x ELSE x

Min(a, b) == IF a < b THEN a ELSE b

\* n / d (d > 0) rounded to the nearest integer, ties to the even one
RoundDiv(n, d) ==
    LET a == Abs(n)
        q == a \div d
        r == a % d
        m == IF 2 * r < d THEN q
             ELSE IF 2 * r > d THEN q + 1
             ELSE IF q % 2 = 0 THEN q ELSE q + 1
    IN  IF n < 0 THEN -m ELSE m

\* the number of low bits a value of magnitude n / d loses in the significand
RECURSIVE Shift(_, _, _)
Shift(n, d, k) ==
    IF Abs(n) \div d < Pow2(MantBits + k) THEN k ELSE Shift(n, d, k + 1)

\* the f32 nearest to n / d quanta (d > 0)
RoundRat(n, d) ==
    LET k == Shift(n, d, 0)
    IN  RoundDiv(n, d * Pow2(k)) * Pow2(k)

\* the f32 nearest to x quanta
Fl(x) == RoundRat(x, 1)

FAdd(a, b) == Fl(a + b)
FSub(a, b) == Fl(a - b)
FMul(a, b) == RoundRat(a * b, One)
FDiv(a, b) == IF b < 0 THEN RoundRat(-(a * One), -b) ELSE RoundRat(a * One, b)
FRecip(x) == FDiv(One, x)
FHalf(x) == FDiv(x, 2 * One)

\* f32::sqrt, correctly rounded: the true root lies nearer y+1 than y exactly
\* when the radicand exceeds y^2 + y
FSqrt(x) ==
    LET s == x * One
        y == CHOOSE c \in 0..s : c * c <= s /\ (c + 1) * (c + 1) > s
    IN  IF s > y * y + y THEN y + 1 ELSE y

\* `n as f32` for a small usize n
AsF32(n) == Fl(n * One)

\* `x.ceil() as usize`: the cast saturates, so a negative value gives 0
CeilAsUsize(x) == IF x <= 0 THEN 0 ELSE (x + One - 1) \div One

(***************************************************************************)
(* The state.                                                              *)
(***************************************************************************)
VARIABLES
    pc,            \* the program's position
    tline,         \* LinearLine: npoints and the per-cell cap, ind, res, cond
    ki_line,       \* KiLine: npoints and the per-cell cap, ind0, crit_cur
    source,        \* MatchedVSource: its four elements and the waveform
    terminator,    \* MatchedTerminator: its four elements
    sim_params,    \* SimulationParameters: delta_z, delta_t
    init_state,    \* SimulationDescriptor::init_state: <<>> (None) or <<state>>
    state,         \* Simulation::state: time, voltages, currents
    result,        \* what the last call returned: Ok, an Error, or a panic
    desc,          \* RunDescriptor of the call in progress
    nsteps,        \* run: nsteps
    store_size,    \* run: store_size
    end_offset,    \* run: end_offset
    full_offset,   \* run: full_offset
    i,             \* run: the batch loop's index
    voltages,      \* compute: the voltage trajectory of the batch
    currents,      \* compute: the current trajectory of the batch
    t_index,       \* compute: the time loop's index
    file,          \* the HDF5 file at RunDescriptor's filename
    runs,          \* the number of calls of run so far
    asked,         \* the number of steps the calls of run so far asked for
    state0,        \* history: the state when the call in progress began
    queries,       \* history: the times the waveform was queried at, this call
    written,       \* history: the entries of row t_index+1 written so far
    computes,      \* history: the nsteps of each compute call, this call
    rowlog,        \* history: the rows of end/voltages written, this call
    appended       \* history: steps of the successful runs since the create

cfgVars == <<tline, ki_line, source, terminator, sim_params, init_state>>
runVars == <<desc, nsteps, store_size, end_offset, full_offset, i>>
solverVars == <<voltages, currents, t_index>>
histVars == <<state0, queries, written, computes, rowlog, appended>>
vars ==
    <<pc, cfgVars, state, result, runVars, solverVars, file, runs, asked,
      histVars>>

(***************************************************************************)
(* Arrays: a one-dimensional array is a sequence, read with the program's  *)
(* 0-based index through At.                                               *)
(***************************************************************************)
At(a, k) == a[k + 1]
Zeros(n) == [k \in 1..n |-> 0]
Last(a) == a[Len(a)]

(***************************************************************************)
(* The inputs.                                                             *)
(***************************************************************************)
\* LinearLine::new samples the four coefficient closures at the cell midpoints
LinearLineNew(n, c, l, r, g) ==
    [npoints |-> n,
     cap |-> [z \in 1..n |-> c],
     ind |-> [z \in 1..n |-> l],
     res |-> [z \in 1..n |-> r],
     cond |-> [z \in 1..n |-> g]]

\* the time step of the runs: 0.5
DeltaT == One \div 2
\* a time at which one time step is half the spacing of the f32 grid
BigTime == Pow2(MantBits) * DeltaT

\* a supplied array: a pulse in its first entry
Pulse(len, a) == [k \in 1..len |-> IF k = 1 THEN a ELSE 0]

InitStates(n) ==
    {<<>>} \cup
    {<<s>> : s \in
       [time : {0, BigTime},
        voltages : {Pulse(len, a) : len \in {n + 1, n + 2}, a \in {2 * One}},
        currents : {Pulse(len, 0) : len \in {n, n + 1}}]}

NoFile ==
    [exists |-> FALSE, has_end |-> FALSE, has_full |-> FALSE,
     end_voltages |-> <<>>, end_currents |-> <<>>,
     start_voltages |-> <<>>, start_currents |-> <<>>,
     full_voltages |-> <<>>, full_currents |-> <<>>,
     time_step |-> <<>>, length_step |-> <<>>]

NoRun == [time_duration |-> 0, save_settings |-> <<>>]

\* no KiLine: the runs of the linear line build none
NoKiLine == [npoints |-> 0, cap |-> <<>>, ind0 |-> <<>>, crit_cur |-> <<>>]

\* no Simulation (before Simulation::new, or after it failed)
NoState == [time |-> 0, voltages |-> <<>>, currents |-> <<>>]

\* a call's result: Ok(..), or Err(Error::H5Error(..)), or a panic
Returned(kind) ==
    [kind |-> kind, array_name |-> "", input_length |-> 0, expected_length |-> 0]

Init ==
    /\ pc = "new"
    /\ \E n \in 1..MaxCells : \E g \in {0} :
         /\ tline = LinearLineNew(n, One, One, 0, g)
         /\ init_state \in InitStates(n)
    /\ source = [inductance |-> One, capacitance |-> One, resistance |-> 0,
                 conductance |-> 0, amplitude |-> 4 * One, t_on |-> DeltaT]
    /\ terminator = [inductance |-> One, capacitance |-> One,
                     resistance |-> 0, conductance |-> 0]
    /\ sim_params = [delta_z |-> One, delta_t |-> DeltaT]
    /\ ki_line = NoKiLine
    /\ state = NoState
    /\ result = Returned("none")
    /\ desc = NoRun
    /\ nsteps = 0 /\ store_size = 0 /\ end_offset = 0 /\ full_offset = 0 /\ i = 0
    /\ voltages = <<>> /\ currents = <<>> /\ t_index = 0
    /\ file = NoFile
    /\ runs = 0 /\ asked = 0
    /\ state0 = NoState /\ queries = <<>> /\ written = {} /\ computes = <<>>
    /\ rowlog = <<>> /\ appended = [steps |-> 0, clean |-> TRUE]

(***************************************************************************)
(* Simulation::new                                                         *)
(***************************************************************************)
\* FdtdSolver::npoints
Npoints == tline.npoints

BadInit(name, input, expected) ==
    [kind |-> "BadInit", array_name |-> name, input_length |-> input,
     expected_length |-> expected]

\* the state Simulation::new starts from: the supplied one or zeros at time 0
UnwrapOr(total_points) ==
    IF init_state = <<>>
    THEN [time |-> 0, voltages |-> Zeros(total_points + 1),
          currents |-> Zeros(total_points)]
    ELSE init_state[1]

\* NewResult with the expected voltage length taken for total_points
NewResultShortVoltage(st, total_points) ==
    IF Len(st.voltages) # total_points
    THEN BadInit("Voltage", Len(st.voltages), total_points)
    ELSE IF Len(st.currents) # total_points
    THEN BadInit("Current", Len(st.voltages), total_points)
    ELSE Returned("Ok")

\* what Simulation::new returns: "Ok" or the BadInit error
NewResult(st, total_points) ==
    IF Len(st.voltages) # total_points + 1
    THEN BadInit("Voltage", Len(st.voltages), total_points + 1)
    ELSE IF Len(st.currents) # total_points
    THEN BadInit("Current", Len(st.voltages), total_points)
    ELSE Returned("Ok")

New ==
    /\ pc = "new"
    /\ LET total_points == 1 + Npoints
           st == UnwrapOr(total_points)
           r == NewResult(st, total_points)
       IN  /\ result' = r
           /\ IF r.kind = "Ok"
              THEN pc' = "idle" /\ state' = st
              ELSE pc' = "no_simulation" /\ state' = NoState
    /\ UNCHANGED <<cfgVars, runVars, solverVars, file, runs, asked, histVars>>

(***************************************************************************)
(* Simulation::run: the batch arithmetic.                                  *)
(***************************************************************************)
\* the element cap the runs of this specification use
Cap == ScaledCap

\* run: nsteps
NSteps(time_duration, delta_t) == CeilAsUsize(FDiv(time_duration, delta_t))

\* StoreSize with the cap divided by the voltage rows' width
StoreSizeByVoltageWidth(n, total_points, cap) ==
    Min(n + 1, (cap \div (total_points + 1)) + 1)

\* run: store_size
StoreSize(n, total_points, cap) == Min(n + 1, (cap \div total_points) + 1)

\* `nsteps-1` below zero: a debug build panics on the usize subtraction; a
\* release build wraps it and goes on to the division, whose divisor is then
\* store_size-1 = 0 (nsteps = 0 makes store_size 1), so it panics there
SubOverflows(n) == n = 0
\* `/ (store_size-1)` with store_size = 1 panics in every build
DivByZero(ss) == ss - 1 = 0
NLoopsPanics(n, ss) == SubOverflows(n) \/ DivByZero(ss)

\* run: nloops, start_index, end_index, niters
NLoops(n, ss) == ((n - 1) \div (ss - 1)) + 1
StartIndex(ss, k) == (ss - 1) * k
EndIndex(ss, k, n) == Min((ss - 1) * (k + 1), n)
NIters(ss, k, n) == EndIndex(ss, k, n) - StartIndex(ss, k)

(***************************************************************************)
(* Simulation::run: the file.                                              *)
(***************************************************************************)
\* Dataset::resize to n rows: new rows hold the fill value
Resize(ds, n, fill) == [k \in 1..n |-> IF k <= Len(ds) THEN ds[k] ELSE fill]

\* Dataset::write_slice of data to the rows lo..lo+Len(data)-1 (0-based)
WriteSlice(ds, data, lo) ==
    [k \in 1..Len(ds) |->
        IF k - 1 >= lo /\ k - 1 < lo + Len(data) THEN data[k - lo] ELSE ds[k]]

SaveSettings ==
    {<<>>} \cup {<<s>> : s \in [save_type : {"End", "Full"}, overwrite : BOOLEAN]}

\* `filename.exists() && !overwrite`
Appends(f, ss) == f.exists /\ ~ss.overwrite

\* the append branch after its first k resizes (4 resize the boundary series,
\* the fifth step resizes or creates the full datasets)
Resized(f, ss, n, total_points, k) ==
    LET prev == Len(f.end_voltages)
        size == prev + n
        full == ss.save_type = "Full" /\ k >= 5
        prev_full == Len(f.full_voltages)
    IN  [f EXCEPT
           !.end_voltages = IF k >= 1 THEN Resize(@, size, 0) ELSE @,
           !.end_currents = IF k >= 2 THEN Resize(@, size, 0) ELSE @,
           !.start_voltages = IF k >= 3 THEN Resize(@, size, 0) ELSE @,
           !.start_currents = IF k >= 4 THEN Resize(@, size, 0) ELSE @,
           !.has_full = @ \/ full,
           !.full_voltages =
               IF ~full THEN @
               ELSE IF f.has_full
                    THEN Resize(@, prev_full + n, Zeros(total_points + 1))
                    ELSE [r \in 1..n |-> Zeros(total_points + 1)],
           !.full_currents =
               IF ~full THEN @
               ELSE IF f.has_full
                    THEN Resize(@, prev_full + n, Zeros(total_points))
                    ELSE [r \in 1..n |-> Zeros(total_points)]]

\* the create branch: File::create truncates, then the datasets and attributes
Created(ss, n, total_points) ==
    LET full == ss.save_type = "Full"
    IN  [exists |-> TRUE, has_end |-> TRUE, has_full |-> full,
         end_voltages |-> Zeros(n), end_currents |-> Zeros(n),
         start_voltages |-> Zeros(n), start_currents |-> Zeros(n),
         full_voltages |->
             IF full THEN [r \in 1..n |-> Zeros(total_points + 1)] ELSE <<>>,
         full_currents |->
             IF full THEN [r \in 1..n |-> Zeros(total_points)] ELSE <<>>,
         time_step |-> <<sim_params.delta_t>>,
         length_step |-> <<sim_params.delta_z>>]

\* the file after "optionally create file"
Prepared(f, sv, n, total_points) ==
    IF sv = <<>> THEN f
    ELSE IF Appends(f, sv[1]) THEN Resized(f, sv[1], n, total_points, 5)
    ELSE Created(sv[1], n, total_points)

\* EndOffset without the continuation offset
EndOffsetZero(f, sv) == 0
\* end_offset and full_offset after "optionally create file"
EndOffset(f, sv) ==
    IF sv # <<>> /\ Appends(f, sv[1]) THEN Len(f.end_voltages) ELSE 0
FullOffset(f, sv) ==
    IF sv # <<>> /\ Appends(f, sv[1]) /\ sv[1].save_type = "Full" /\ f.has_full
    THEN Len(f.full_voltages) ELSE 0

\* the time_duration values a caller asks for: up to MaxSteps steps, and a
\* duration that is not a whole number of steps
Durations == {k * DeltaT : k \in 0..MaxSteps} \cup {DeltaT \div 2}

\* run, from its entry to the batch loop's first test, with no failure of
\* the file: it panics on nloops when no step is asked for.  The callers
\* unwrap the Result of every call, so that run is called again only after
\* Ok(()).
RunBegin ==
    /\ pc = "idle"
    /\ result.kind = "Ok"
    /\ \E td \in Durations : \E sv \in SaveSettings :
         LET n == NSteps(td, sim_params.delta_t)
             total_points == 1 + Npoints
             ss == StoreSize(n, total_points, Cap)
         IN  /\ asked + n <= MaxSteps
             /\ asked' = asked + n
             /\ sv # <<>> /\ Appends(file, sv[1]) => file.has_end
             /\ desc' = [time_duration |-> td, save_settings |-> sv]
             /\ nsteps' = n
             /\ store_size' = ss
             /\ end_offset' = EndOffset(file, sv)
             /\ full_offset' = FullOffset(file, sv)
             /\ file' = Prepared(file, sv, n, total_points)
             /\ appended' =
                  IF sv = <<>> THEN appended
                  ELSE IF Appends(file, sv[1]) THEN appended
                  ELSE [steps |-> 0, clean |-> TRUE]
             /\ IF NLoopsPanics(n, ss)
                THEN pc' = "panicked" /\ result' = Returned("panic")
                ELSE pc' = "loop" /\ result' = Returned("none")
    /\ i' = 0
    /\ runs' = runs + 1
    /\ state0' = state
    /\ queries' = <<>> /\ computes' = <<>> /\ rowlog' = <<>>
    /\ UNCHANGED <<cfgVars, state, solverVars, written>>

\* run, when a call on the file fails while the file is prepared: the error
\* is returned at once.  Appending, k resizes were done before the failure;
\* creating, k = 0 is a failure of File::create and otherwise the file was
\* truncated and not completed.
RunBeginFails ==
    /\ pc = "idle"
    /\ result.kind = "Ok"
    /\ \E td \in Durations : \E sv \in SaveSettings \ {<<>>} : \E k \in 0..4 :
         LET n == NSteps(td, sim_params.delta_t)
             total_points == 1 + Npoints
         IN  /\ asked + n <= MaxSteps
             /\ asked' = asked + n
             /\ desc' = [time_duration |-> td, save_settings |-> sv]
             /\ nsteps' = n
             /\ store_size' = StoreSize(n, total_points, Cap)
             /\ IF Appends(file, sv[1])
                THEN /\ file' = IF file.has_end
                                THEN Resized(file, sv[1], n, total_points, k)
                                ELSE file
                     /\ appended' = [appended EXCEPT !.clean = @ /\ k = 0]
                ELSE /\ k <= 1
                     /\ file' = IF k = 0 THEN file
                                ELSE [NoFile EXCEPT !.exists = TRUE]
                     /\ appended' = IF k = 0 THEN appended
                                    ELSE [steps |-> 0, clean |-> FALSE]
    /\ pc' = "idle"
    /\ result' = Returned("H5Error")
    /\ end_offset' = 0 /\ full_offset' = 0 /\ i' = 0
    /\ runs' = runs + 1
    /\ state0' = state
    /\ queries' = <<>> /\ computes' = <<>> /\ rowlog' = <<>>
    /\ UNCHANGED <<cfgVars, state, solverVars, written>>

(***************************************************************************)
(* The circuit components.                                                 *)
(***************************************************************************)
\* `sim_params.delta_z / sim_params.delta_t`
DRatio(sp) == FDiv(sp.delta_z, sp.delta_t)

\* MatchedVSource::generate: the waveform closure, a step of the source's
\* amplitude switched on at t_on
Generate(time) == IF time >= source.t_on THEN source.amplitude ELSE 0

\* MatchedVSource::next_voltage, with g the waveform's value at t
SourceNextVoltage(g, last_volt, last_curr, sp) ==
    LET impedance == FSqrt(FDiv(source.inductance, source.capacitance))
        total_resistance == FAdd(FMul(sp.delta_z, source.resistance), impedance)
        d_ratio == DRatio(sp)
        last_source_curr ==
            FMul(FRecip(FAdd(FMul(d_ratio, source.inductance),
                             FHalf(total_resistance))),
                 FAdd(FMul(FSub(FMul(d_ratio, source.inductance),
                                FHalf(total_resistance)), last_curr),
                      FSub(g, last_volt)))
    IN  FMul(FRecip(FAdd(FMul(d_ratio, source.capacitance),
                         FHalf(FMul(sp.delta_z, source.conductance)))),
             FAdd(FMul(FSub(FMul(d_ratio, source.capacitance),
                            FHalf(FMul(sp.delta_z, source.conductance))),
                       last_volt),
                  FSub(last_source_curr, last_curr)))

\* LinearLine::next_voltage at cell index, from the node's last voltage and
\* the two currents flanking it
LineNextVoltage(last_volt, last_curr0, last_curr1, index, sp) ==
    LET d_ratio == DRatio(sp)
        c == At(tline.cap, index)
        g == At(tline.cond, index)
    IN  FMul(FRecip(FAdd(FMul(d_ratio, c), FHalf(FMul(sp.delta_z, g)))),
             FAdd(FMul(FSub(FMul(d_ratio, c), FHalf(FMul(sp.delta_z, g))),
                       last_volt),
                  FSub(last_curr0, last_curr1)))

\* LinearLine::next_current at cell index, from the node's last current and
\* the two voltages flanking it
LineNextCurrent(volt0, volt1, last_curr, index, sp) ==
    LET d_ratio == DRatio(sp)
        l == At(tline.ind, index)
        r == At(tline.res, index)
    IN  FMul(FRecip(FAdd(FMul(d_ratio, l), FHalf(FMul(sp.delta_z, r)))),
             FAdd(FMul(FSub(FMul(d_ratio, l), FHalf(FMul(sp.delta_z, r))),
                       last_curr),
                  FSub(volt0, volt1)))

\* TermNextVoltage without the load: the line's end left open
TermNextVoltageOpen(last_volt, last_curr, sp) ==
    LET total_conductance == FMul(sp.delta_z, terminator.conductance)
        d_ratio == DRatio(sp)
    IN  FMul(FRecip(FAdd(FMul(d_ratio, terminator.capacitance),
                         FHalf(total_conductance))),
             FAdd(FMul(FSub(FMul(d_ratio, terminator.capacitance),
                            FHalf(total_conductance)), last_volt),
                  last_curr))

\* MatchedTerminator::next_voltage
TermNextVoltage(last_volt, last_curr, sp) ==
    LET load_conductance ==
            FSqrt(FDiv(terminator.capacitance, terminator.inductance))
        total_conductance ==
            FAdd(FMul(sp.delta_z, terminator.conductance), load_conductance)
        d_ratio == DRatio(sp)
    IN  FMul(FRecip(FAdd(FMul(d_ratio, terminator.capacitance),
                         FHalf(total_conductance))),
             FAdd(FMul(FSub(FMul(d_ratio, terminator.capacitance),
                            FHalf(total_conductance)), last_volt),
                  last_curr))

\* MatchedTerminator::next_current
TermNextCurrent(volt0, volt1, last_curr, sp) ==
    LET d_ratio == DRatio(sp)
    IN  FMul(FRecip(FAdd(FMul(d_ratio, terminator.inductance),
                         FHalf(FMul(sp.delta_z, terminator.resistance)))),
             FAdd(FMul(FSub(FMul(d_ratio, terminator.inductance),
                            FHalf(FMul(sp.delta_z, terminator.resistance))),
                       last_curr),
                  FSub(volt0, volt1)))

(***************************************************************************)
(* FdtdSolver::compute.  A trajectory is the sequence of its rows; row r   *)
(* of the program (0-based) is the sequence's element r+1.                 *)
(***************************************************************************)
\* the steps of the batch in progress: ComputeDescriptor::nsteps
Niters == NIters(store_size, i, nsteps)

\* the storage arrays of compute: zeros, with row 0 the state
Storage(n, width, row0) == [r \in 1..(n + 1) |-> IF r = 1 THEN row0 ELSE Zeros(width)]

\* the rows the time loop reads at t_index
LastVolts == voltages[t_index + 1]
LastCurrs == currents[t_index + 1]
\* NextVolts without the rebinding: the current pass reads the old row
NextVoltsStale == voltages[t_index + 1]
\* `let last_volts = voltages.row(t_index+1)`: what the current pass reads
NextVolts == voltages[t_index + 2]

\* the time of step t_index
StepTime(k, st, sp) == FAdd(FMul(AsF32(k), sp.delta_t), st.time)

\* the batch loop's test, and the call of compute up to its time loop
BatchBegin ==
    /\ pc = "loop"
    /\ i < NLoops(nsteps, store_size)
    /\ LET total_points == 1 + Npoints
       IN  /\ voltages' = Storage(Niters, total_points + 1, state.voltages)
           /\ currents' = Storage(Niters, total_points, state.currents)
    /\ t_index' = 0
    /\ computes' = Append(computes, Niters)
    /\ written' = {}
    /\ pc' = IF 0 < Niters THEN "source_voltage" ELSE "persist"
    /\ UNCHANGED <<cfgVars, state, result, runVars, file, runs, asked, state0,
                   queries, rowlog, appended>>

\* "calculate first voltage from vsource"
SourceVoltage ==
    /\ pc = "source_voltage"
    /\ LET t == StepTime(t_index, state, sim_params)
       IN  /\ voltages' = [voltages EXCEPT ![t_index + 2][1] =
                  SourceNextVoltage(Generate(t), At(LastVolts, 0),
                                    At(LastCurrs, 0), sim_params)]
           /\ queries' = Append(queries, t)
    /\ written' = {<<"voltage", 0>>}
    /\ pc' = "line_voltages"
    /\ UNCHANGED <<cfgVars, state, result, runVars, currents, t_index, file,
                   runs, asked, state0, computes, rowlog, appended>>

\* the Zip over next_volts[1..1+npoints]
LineVoltages ==
    /\ pc = "line_voltages"
    /\ voltages' = [voltages EXCEPT ![t_index + 2] =
           [c \in 1..Len(@) |->
               IF c - 1 >= 1 /\ c - 1 < 1 + Npoints
               THEN LineNextVoltage(At(LastVolts, c - 1), At(LastCurrs, c - 2),
                                    At(LastCurrs, c - 1), c - 2, sim_params)
               ELSE @[c]]]
    /\ written' = written \cup {<<"voltage", c>> : c \in 1..Npoints}
    /\ pc' = "terminator_voltage"
    /\ UNCHANGED <<cfgVars, state, result, runVars, currents, t_index, file,
                   runs, asked, state0, queries, computes, rowlog, appended>>

\* "calculate last voltage"
TerminatorVoltage ==
    /\ pc = "terminator_voltage"
    /\ LET last_ind == 1 + Npoints
       IN  /\ voltages' = [voltages EXCEPT ![t_index + 2][last_ind + 1] =
                  TermNextVoltage(At(LastVolts, last_ind),
                                  At(LastCurrs, last_ind - 1), sim_params)]
           /\ written' = written \cup {<<"voltage", last_ind>>}
    /\ pc' = "line_currents"
    /\ UNCHANGED <<cfgVars, state, result, runVars, currents, t_index, file,
                   runs, asked, state0, queries, computes, rowlog, appended>>

\* "calculate currents for next time step": the Zip over next_currs[0..npoints]
LineCurrents ==
    /\ pc = "line_currents"
    /\ currents' = [currents EXCEPT ![t_index + 2] =
           [c \in 1..Len(@) |->
               IF c - 1 < Npoints
               THEN LineNextCurrent(At(NextVolts, c - 1), At(NextVolts, c),
                                    At(LastCurrs, c - 1), c - 1, sim_params)
               ELSE @[c]]]
    /\ written' = written \cup {<<"current", c>> : c \in 0..(Npoints - 1)}
    /\ pc' = "terminator_current"
    /\ UNCHANGED <<cfgVars, state, result, runVars, voltages, t_index, file,
                   runs, asked, state0, queries, computes, rowlog, appended>>

\* "calculate last current", and the time loop's next test
TerminatorCurrent ==
    /\ pc = "terminator_current"
    /\ LET last_ind == 1 + Npoints
       IN  /\ currents' = [currents EXCEPT ![t_index + 2][last_ind] =
                  TermNextCurrent(At(NextVolts, last_ind - 1),
                                  At(NextVolts, last_ind),
                                  At(LastCurrs, last_ind - 1), sim_params)]
           /\ written' = written \cup {<<"current", last_ind - 1>>}
    /\ t_index' = t_index + 1
    /\ pc' = IF t_index + 1 < Niters THEN "source_voltage" ELSE "persist"
    /\ UNCHANGED <<cfgVars, state, result, runVars, voltages, file, runs, asked,
                   state0, queries, computes, rowlog, appended>>

(***************************************************************************)
(* Simulation::run: the rest of the batch loop.                            *)
(***************************************************************************)
\* `a.slice(s![1..=niters, c])`: column c of the rows 1..niters
Column(a, n, c) == [r \in 1..n |-> a[r + 1][c]]
\* `a.slice(s![1..=niters, ..])`: the rows 1..niters
Rows(a, n) == [r \in 1..n |-> a[r + 1]]

\* the file after the first k write_slice calls of the batch
Persisted(f, ss, k) ==
    LET n == Niters
        lo == StartIndex(store_size, i) + end_offset
        flo == StartIndex(store_size, i) + full_offset
        full == ss.save_type = "Full"
    IN  [f EXCEPT
           !.end_voltages = IF k >= 1
               THEN WriteSlice(@, Column(voltages, n, Len(voltages[1])), lo) ELSE @,
           !.end_currents = IF k >= 2
               THEN WriteSlice(@, Column(currents, n, Len(currents[1])), lo) ELSE @,
           !.start_voltages = IF k >= 3
               THEN WriteSlice(@, Column(voltages, n, 1), lo) ELSE @,
           !.start_currents = IF k >= 4
               THEN WriteSlice(@, Column(currents, n, 1), lo) ELSE @,
           !.full_voltages = IF full /\ k >= 5
               THEN WriteSlice(@, Rows(voltages, n), flo) ELSE @,
           !.full_currents = IF full /\ k >= 6
               THEN WriteSlice(@, Rows(currents, n), flo) ELSE @]

\* the rows of the boundary series the batch writes
DestRows == [r \in 1..Niters |-> StartIndex(store_size, i) + end_offset + r - 1]

\* "optionally write full data to file", every call on the file succeeding
Persist ==
    /\ pc = "persist"
    /\ IF desc.save_settings = <<>>
       THEN UNCHANGED <<file, rowlog>>
       ELSE /\ file' = Persisted(file, desc.save_settings[1], 6)
            /\ rowlog' = rowlog \o DestRows
    /\ pc' = "update_state"
    /\ UNCHANGED <<cfgVars, state, result, runVars, solverVars, runs, asked, state0,
                   queries, written, computes, appended>>

\* PersistFails with the state updated before the file is written
PersistFailsAfterUpdate ==
    /\ pc = "persist"
    /\ desc.save_settings # <<>>
    /\ \E k \in 0..5 :
         /\ k >= 4 => desc.save_settings[1].save_type = "Full"
         /\ file' = Persisted(file, desc.save_settings[1], k)
         /\ rowlog' = IF k >= 1 THEN rowlog \o DestRows ELSE rowlog
    /\ appended' = [appended EXCEPT !.clean = FALSE]
    /\ state' = [time |-> FAdd(state.time, FMul(AsF32(Niters), sim_params.delta_t)),
                 voltages |-> voltages[Niters + 1],
                 currents |-> currents[Niters + 1]]
    /\ pc' = "idle"
    /\ result' = Returned("H5Error")
    /\ UNCHANGED <<cfgVars, runVars, solverVars, runs, asked, state0, queries,
                   written, computes>>

\* a call on the file fails after k write_slice calls of the batch: run
\* returns the error
PersistFails ==
    /\ pc = "persist"
    /\ desc.save_settings # <<>>
    /\ \E k \in 0..5 :
         /\ k >= 4 => desc.save_settings[1].save_type = "Full"
         /\ file' = Persisted(file, desc.save_settings[1], k)
         /\ rowlog' = IF k >= 1 THEN rowlog \o DestRows ELSE rowlog
    /\ appended' = [appended EXCEPT !.clean = FALSE]
    /\ pc' = "idle"
    /\ result' = Returned("H5Error")
    /\ UNCHANGED <<cfgVars, state, runVars, solverVars, runs, asked, state0, queries,
                   written, computes>>

\* "update state", and the batch loop's step
UpdateState ==
    /\ pc = "update_state"
    /\ state' = [time |-> FAdd(state.time, FMul(AsF32(Niters), sim_params.delta_t)),
                 voltages |-> voltages[Niters + 1],
                 currents |-> currents[Niters + 1]]
    /\ i' = i + 1
    /\ pc' = "loop"
    /\ UNCHANGED <<cfgVars, result, desc, nsteps, store_size, end_offset,
                   full_offset, solverVars, file, runs, asked, histVars>>

\* the batch loop is over: run returns Ok(())
RunEnd ==
    /\ pc = "loop"
    /\ ~(i < NLoops(nsteps, store_size))
    /\ pc' = "idle"
    /\ result' = Returned("Ok")
    /\ appended' = IF desc.save_settings = <<>> THEN appended
                   ELSE [appended EXCEPT !.steps = @ + nsteps]
    /\ UNCHANGED <<cfgVars, state, runVars, solverVars, file, runs, asked, state0,
                   queries, written, computes, rowlog>>

(***************************************************************************)
(* FdtdSolver::compute as a function of its input: what one call returns.  *)
(***************************************************************************)
\* the voltage row after the row (last_volts, last_currs), at step time t
VoltRow(last_volts, last_currs, t) ==
    [c \in 1..Len(last_volts) |->
        IF c = 1
        THEN SourceNextVoltage(Generate(t), last_volts[1], last_currs[1], sim_params)
        ELSE IF c <= 1 + Npoints
        THEN LineNextVoltage(last_volts[c], last_currs[c - 1], last_currs[c],
                             c - 2, sim_params)
        ELSE TermNextVoltage(last_volts[c], last_currs[c - 1], sim_params)]

\* the current row after last_currs, under the new voltage row
CurrRow(next_volts, last_currs) ==
    [c \in 1..Len(last_currs) |->
        IF c <= Npoints
        THEN LineNextCurrent(next_volts[c], next_volts[c + 1], last_currs[c],
                             c - 1, sim_params)
        ELSE TermNextCurrent(next_volts[c], next_volts[c + 1], last_currs[c],
                             sim_params)]

\* row k of the trajectories compute returns for the state st
RECURSIVE RowAfter(_, _)
RowAfter(st, k) ==
    IF k = 0 THEN [voltages |-> st.voltages, currents |-> st.currents]
    ELSE LET p == RowAfter(st, k - 1)
             nv == VoltRow(p.voltages, p.currents, StepTime(k - 1, st, sim_params))
         IN  [voltages |-> nv, currents |-> CurrRow(nv, p.currents)]

\* the state after one call of compute for n steps is folded in
OneCall(st, n) ==
    [time |-> FAdd(st.time, FMul(AsF32(n), sim_params.delta_t)),
     voltages |-> RowAfter(st, n).voltages,
     currents |-> RowAfter(st, n).currents]

\* the times one call of compute for n steps queries the waveform at
OneCallQueries(st, n) == [k \in 1..n |-> StepTime(k - 1, st, sim_params)]

Next ==
    \/ New
    \/ RunBegin
    \/ RunBeginFails
    \/ BatchBegin
    \/ SourceVoltage
    \/ LineVoltages
    \/ TerminatorVoltage
    \/ LineCurrents
    \/ TerminatorCurrent
    \/ Persist
    \/ PersistFails
    \/ UpdateState
    \/ RunEnd

Spec == Init /\ [][Next]_vars

(***************************************************************************)
(* The claims.                                                             *)
(***************************************************************************)
\* a call of run has returned Ok(())
RunSucceeded == pc = "idle" /\ runs > 0 /\ result.kind = "Ok"

\* C1: batching is transparent: when a run of nsteps steps has succeeded,
\* the state (time, voltages, currents) is the state one call of compute for
\* all nsteps steps gives from the run's starting state, and the waveform
\* was queried at the times that one call queries it at.
C1_BatchingTransparent ==
    RunSucceeded =>
        /\ state = OneCall(state0, nsteps)
        /\ queries = OneCallQueries(state0, nsteps)

\* C2: a run of zero steps returns Ok(()) with the state unchanged, no call
\* of compute and no row written to the file.
C2_ZeroLengthRunCompletes ==
    (runs > 0 /\ nsteps = 0 /\ pc \in {"idle", "panicked"}
        /\ result.kind # "H5Error")
    => /\ result.kind = "Ok"
       /\ state = state0
       /\ computes = <<>>
       /\ rowlog = <<>>

\* the state after the first k batches of sizes ns, each one call of compute
\* from the state the batch before it left
RECURSIVE Folded(_, _, _)
Folded(st, ns, k) ==
    IF k = 0 THEN st ELSE OneCall(Folded(st, ns, k - 1), ns[k])

\* run is between its batch loop's first test and its return
InRun ==
    pc \in {"loop", "source_voltage", "line_voltages", "terminator_voltage",
            "line_currents", "terminator_current", "persist", "update_state"}

\* run has returned the error of a call on the file made for a batch
FailedInBatch == pc = "idle" /\ result.kind = "H5Error" /\ computes # <<>>

\* C3: while a batch is being persisted, and after run has returned the
\* error of a failed persistence of batch i, the driver's state is the
\* state folded in after the batches before i (the run's starting state for
\* the first batch), and compute was called for no batch after i.
C3_PersistFailureKeepsState ==
    (pc = "persist" \/ FailedInBatch) =>
        /\ state = Folded(state0, computes, i)
        /\ Len(computes) = i + 1

\* C3's case: persistence failed in a batch after the first
C3_Witness == FailedInBatch /\ i >= 1 /\ state # state0

\* the lengths of the supplied arrays
SuppliedVoltages == Len(init_state[1].voltages)
SuppliedCurrents == Len(init_state[1].currents)

\* C4: Simulation::new with a supplied voltage array whose length is not
\* N+2 returns BadInit naming "Voltage", with the supplied voltage array's
\* length and the expected length N+2, and there is no Simulation.
C4_BadVoltageLength ==
    (pc # "new" /\ init_state # <<>> /\ SuppliedVoltages # Npoints + 2) =>
        /\ result = BadInit("Voltage", SuppliedVoltages, Npoints + 2)
        /\ pc = "no_simulation"
        /\ state = NoState

\* C4's case: a voltage array of length N+1 was refused
C4_Witness ==
    /\ pc = "no_simulation"
    /\ init_state # <<>>
    /\ SuppliedVoltages = Npoints + 1
    /\ result.kind = "BadInit"

\* C5: Simulation::new with a voltage array of length N+2 and a current
\* array whose length is not N+1 returns BadInit naming "Current", with the
\* supplied current array's length and the expected length N+1.
C5_BadCurrentLength ==
    (pc # "new" /\ init_state # <<>> /\ SuppliedVoltages = Npoints + 2
        /\ SuppliedCurrents # Npoints + 1) =>
        result = BadInit("Current", SuppliedCurrents, Npoints + 1)

\* the call of run in progress, or the one that returned last, saves
Saving == desc.save_settings # <<>>

\* the boundary series of the file
BoundarySeries(f) ==
    <<f.end_voltages, f.end_currents, f.start_voltages, f.start_currents>>

\* C8 (states): in a saving run with offset o = end_offset, every boundary
\* series holds o + nsteps rows, the rows written so far are o, o+1, ... in
\* step order (each once, none below o), all of [o, o+nsteps) once the run
\* has succeeded; o is the number of rows the successful runs since the
\* create had appended (0 on a fresh create), and after successful runs
\* only the series holds the sum of their nsteps.
C8_Rows ==
    /\ (Saving /\ (InRun \/ RunSucceeded)) =>
          /\ \A k \in 1..4 : Len(BoundarySeries(file)[k]) = end_offset + nsteps
          /\ rowlog = [k \in 1..Len(rowlog) |-> end_offset + k - 1]
          /\ Len(rowlog) = IF RunSucceeded THEN nsteps
                           ELSE IF pc = "update_state"
                           THEN EndIndex(store_size, i, nsteps)
                           ELSE Min(StartIndex(store_size, i), nsteps)
          /\ appended.clean =>
                end_offset = appended.steps - (IF RunSucceeded THEN nsteps ELSE 0)
    /\ (pc = "idle" /\ appended.clean /\ file.has_end) =>
          Len(file.end_voltages) = appended.steps

\* the series ds after rows 1..niters of column c of the trajectory a are
\* written to the rows [start_index + o, end_index + o)
Appended(ds, a, c) ==
    [k \in 1..Len(ds) |->
        IF /\ k - 1 >= StartIndex(store_size, i) + end_offset
           /\ k - 1 < EndIndex(store_size, i, nsteps) + end_offset
        THEN a[k - StartIndex(store_size, i) - end_offset + 1][c]
        ELSE ds[k]]

\* C8 (steps): a batch's successful persistence writes rows 1..niters of
\* its trajectory's boundary columns, never row 0, to the rows
\* [start_index + o, end_index + o) and leaves every other row as it was.
C8_Step ==
    (pc = "persist" /\ pc' = "update_state" /\ Saving) =>
        /\ file'.end_voltages = Appended(file.end_voltages, voltages, Npoints + 2)
        /\ file'.end_currents = Appended(file.end_currents, currents, Npoints + 1)
        /\ file'.start_voltages = Appended(file.start_voltages, voltages, 1)
        /\ file'.start_currents = Appended(file.start_currents, currents, 1)

\* C8: persistence is append-without-overwrite: C8_Rows in every state and
\* C8_Step in every step.
C8_AppendWithoutOverwrite == [](C8_Rows) /\ [][C8_Step]_vars

\* C8's case: a run of several batches has appended to an earlier run's rows
C8_Witness ==
    /\ RunSucceeded /\ Saving
    /\ end_offset > 0
    /\ Len(computes) >= 2
    /\ appended.clean
    /\ file.start_voltages[end_offset + 1] # 0
    /\ file.start_voltages[end_offset + 2] # 0

\* compute is in its time loop or has just returned
InCompute ==
    pc \in {"source_voltage", "line_voltages", "terminator_voltage",
            "line_currents", "terminator_current", "persist"}

\* C9: within a step, a current of the new row is written only when all
\* N+2 voltages of the new row are; every completed row k+1 has its
\* voltages computed from row k's voltages and currents, and its currents
\* from row k's currents and the voltages of row k+1 itself.
C9_VoltagesBeforeCurrents ==
    InCompute =>
        /\ (\E c \in 0..Npoints : <<"current", c>> \in written) =>
              \A c \in 0..(Npoints + 1) : <<"voltage", c>> \in written
        /\ \A r \in 1..t_index :
              /\ voltages[r + 1] =
                    VoltRow(voltages[r], currents[r],
                            StepTime(r - 1, state, sim_params))
              /\ currents[r + 1] = CurrRow(voltages[r + 1], currents[r])

\* C9's case: two steps of a batch are complete and the second moved current
C9_Witness ==
    /\ pc = "persist"
    /\ t_index >= 2
    /\ currents[3] # currents[2]
    /\ voltages[3] # voltages[2]

\* C10: a call of compute for n steps returns n+1 rows, N+2 and N+1 wide,
\* row 0 the driver's state and row k the state after k steps, the driver's
\* state being as before the call; after each batch the driver's arrays
\* are the trajectory's last rows; after a successful run state.time is the
\* starting time plus nsteps*delta_t.
C10_TrajectoryAndTime ==
    /\ pc = "persist" =>
          /\ Len(voltages) = Niters + 1 /\ Len(currents) = Niters + 1
          /\ \A k \in 0..Niters :
                /\ Len(voltages[k + 1]) = Npoints + 2
                /\ Len(currents[k + 1]) = Npoints + 1
                /\ voltages[k + 1] = RowAfter(state, k).voltages
                /\ currents[k + 1] = RowAfter(state, k).currents
          /\ state = Folded(state0, computes, i)
    /\ (pc = "loop" /\ i > 0) =>
          /\ state.voltages = Last(voltages)
          /\ state.currents = Last(currents)
    /\ RunSucceeded =>
          state.time = FAdd(state0.time, FMul(AsF32(nsteps), sim_params.delta_t))

(***************************************************************************)
(* The batch loop of Simulation::run under the program's element cap, for  *)
(* lines of up to ElementCap cells.  The arrays are not carried: this      *)
(* specification follows nsteps, store_size and the loop's indices through *)
(* a run that saves nothing, and records each batch's nsteps in computes   *)
(* and its <<start_index, end_index>> in rowlog.                           *)
(***************************************************************************)
\* the cell counts of the lines: a few cells, and around the element cap
LineSizes ==
    {1, 2, 3, (ElementCap \div 2) - 1, ElementCap - 1, ElementCap}

\* the step counts asked for: nsteps is the ceiling of an f32, so it is a
\* whole number that an f32 holds
AskedSteps ==
    {n \in (0..5) \cup
           {ElementCap \div 4, (ElementCap \div 3) - 1, (ElementCap \div 3) + 1,
            ElementCap \div 2, (ElementCap \div 2) + 4, ElementCap} :
        Fl(n) = n}

InitBatch ==
    /\ pc = "batch_idle"
    /\ \E n \in LineSizes :
         tline = [npoints |-> n, cap |-> <<>>, ind |-> <<>>, res |-> <<>>,
                  cond |-> <<>>]
    /\ init_state = <<>>
    /\ source = [inductance |-> One, capacitance |-> One, resistance |-> 0,
                 conductance |-> 0, amplitude |-> 4 * One, t_on |-> DeltaT]
    /\ terminator = [inductance |-> One, capacitance |-> One,
                     resistance |-> 0, conductance |-> 0]
    /\ sim_params = [delta_z |-> One, delta_t |-> DeltaT]
    /\ ki_line = NoKiLine
    /\ state = NoState
    /\ result = Returned("none")
    /\ desc = NoRun
    /\ nsteps = 0 /\ store_size = 0 /\ end_offset = 0 /\ full_offset = 0 /\ i = 0
    /\ voltages = <<>> /\ currents = <<>> /\ t_index = 0
    /\ file = NoFile
    /\ runs = 0 /\ asked = 0
    /\ state0 = NoState /\ queries = <<>> /\ written = {} /\ computes = <<>>
    /\ rowlog = <<>> /\ appended = [steps |-> 0, clean |-> TRUE]

\* run, from its entry to the batch loop's first test
BatchRunBegin ==
    /\ pc = "batch_idle"
    /\ \E n \in AskedSteps :
         LET ss == StoreSize(n, 1 + Npoints, ElementCap)
         IN  /\ IF NLoopsPanics(n, ss) THEN TRUE
                ELSE NLoops(n, ss) <= MaxBatches
             /\ nsteps' = n
             /\ store_size' = ss
             /\ IF NLoopsPanics(n, ss)
                THEN pc' = "batch_panicked" /\ result' = Returned("panic")
                ELSE pc' = "batch_loop" /\ result' = Returned("none")
    /\ i' = 0
    /\ runs' = runs + 1
    /\ UNCHANGED <<cfgVars, state, desc, end_offset, full_offset, solverVars,
                   file, asked, histVars>>

\* one batch: the loop's test, its indices, the call of compute, the fold
BatchIterate ==
    /\ pc = "batch_loop"
    /\ i < NLoops(nsteps, store_size)
    /\ computes' = Append(computes, NIters(store_size, i, nsteps))
    /\ rowlog' = Append(rowlog, <<StartIndex(store_size, i),
                                  EndIndex(store_size, i, nsteps)>>)
    /\ i' = i + 1
    /\ UNCHANGED <<pc, cfgVars, state, result, desc, nsteps, store_size,
                   end_offset, full_offset, solverVars, file, runs, asked, state0,
                   queries, written, appended>>

\* the batch loop is over: run returns Ok(())
BatchRunEnd ==
    /\ pc = "batch_loop"
    /\ ~(i < NLoops(nsteps, store_size))
    /\ pc' = "batch_done"
    /\ result' = Returned("Ok")
    /\ UNCHANGED <<cfgVars, state, runVars, solverVars, file, runs, asked, histVars>>

NextBatch == BatchRunBegin \/ BatchIterate \/ BatchRunEnd

SpecBatch == InitBatch /\ [][NextBatch]_vars

\* the sum of a sequence of numbers
RECURSIVE Sum(_)
Sum(ns) == IF ns = <<>> THEN 0 ELSE ns[1] + Sum(Tail(ns))

\* C6: a run of nsteps >= 1 steps returns having made its batches in
\* increasing order, batch k covering [(store_size-1)*k,
\* min((store_size-1)*(k+1), nsteps)): consecutive from 0 to nsteps, each
\* of at least 1 and at most store_size-1 steps, nsteps steps in all.
C6_BatchesPartitionSteps ==
    (pc \in {"batch_done", "batch_panicked"} /\ nsteps >= 1) =>
        /\ pc = "batch_done"
        /\ Len(rowlog) >= 1
        /\ rowlog[1][1] = 0
        /\ rowlog[Len(rowlog)][2] = nsteps
        /\ \A k \in 1..Len(rowlog) :
              /\ rowlog[k] = <<(store_size - 1) * (k - 1),
                               Min((store_size - 1) * k, nsteps)>>
              /\ k > 1 => rowlog[k][1] = rowlog[k - 1][2]
              /\ rowlog[k][2] - rowlog[k][1] >= 1
              /\ rowlog[k][2] - rowlog[k][1] <= store_size - 1
              /\ computes[k] = rowlog[k][2] - rowlog[k][1]
        /\ Sum(computes) = nsteps

\* the batch loop has been entered or left
BatchRunning == pc \in {"batch_loop", "batch_done", "batch_panicked"}

\* C7 as stated: store_size is min(nsteps+1, floor(cap / (N+2)) + 1), the
\* cap 100,000,000 divided by the voltage rows' width, and no call of
\* compute is for more than floor(cap / (N+2)) steps.
C7_StoreSizeByVoltageWidth ==
    BatchRunning =>
        /\ store_size = Min(nsteps + 1, (100000000 \div (Npoints + 2)) + 1)
        /\ \A k \in 1..Len(computes) :
              computes[k] <= 100000000 \div (Npoints + 2)

\* C7, amended: store_size is min(nsteps+1, floor(cap / (N+1)) + 1), the
\* cap 100,000,000 divided by the current rows' width N+1 (one less than
\* the voltage rows'), and no call of compute is for more than
\* floor(cap / (N+1)) steps.
C7_StoreSizeByCurrentWidth ==
    BatchRunning =>
        /\ store_size = Min(nsteps + 1, (100000000 \div (Npoints + 1)) + 1)
        /\ \A k \in 1..Len(computes) :
              computes[k] <= 100000000 \div (Npoints + 1)

\* C7's case: the cap, not nsteps, set the size of a batch
C7_Witness ==
    /\ pc = "batch_done"
    /\ store_size < nsteps + 1
    /\ Len(computes) >= 2
    /\ computes[1] = 100000000 \div (Npoints + 1)

(***************************************************************************)
(* A long run of the matched line.  The source and the terminator are      *)
(* built from the line's own L and C, the line is lossless and at rest,    *)
(* and the waveform is a step that is on from the start.  Each action is a *)
(* run of one step that saves nothing.  The run starts at BigTime, where   *)
(* adding one delta_t leaves an f32 time as it is, so the states of a run  *)
(* of any length are finitely many; runs counts the calls up to            *)
(* SettleSteps.                                                            *)
(***************************************************************************)
\* the amplitudes of the step
Amplitudes == {2 * One, 4 * One, 8 * One}

\* the line at rest
AtRest(n) ==
    [time |-> BigTime, voltages |-> Zeros(n + 2), currents |-> Zeros(n + 1)]

InitSteady ==
    /\ pc = "steady"
    /\ \E n \in 1..MaxCells :
         /\ tline = LinearLineNew(n, One, One, 0, 0)
         /\ init_state = <<AtRest(n)>>
         /\ state = AtRest(n)
         /\ state0 = AtRest(n)
    /\ \E a \in Amplitudes :
         source = [inductance |-> One, capacitance |-> One, resistance |-> 0,
                   conductance |-> 0, amplitude |-> a, t_on |-> 0]
    /\ terminator = [inductance |-> One, capacitance |-> One,
                     resistance |-> 0, conductance |-> 0]
    /\ sim_params = [delta_z |-> One, delta_t |-> DeltaT]
    /\ ki_line = NoKiLine
    /\ result = Returned("Ok")
    /\ desc = [time_duration |-> DeltaT, save_settings |-> <<>>]
    /\ nsteps = 1 /\ store_size = 2 /\ end_offset = 0 /\ full_offset = 0 /\ i = 0
    /\ voltages = <<>> /\ currents = <<>> /\ t_index = 0
    /\ file = NoFile
    /\ runs = 0 /\ asked = 0
    /\ queries = <<>> /\ written = {} /\ computes = <<>>
    /\ rowlog = <<>> /\ appended = [steps |-> 0, clean |-> TRUE]

\* run for one step, saving nothing: one batch, one call of compute for one
\* step, and the fold of its last row and of its time
SteadyStep ==
    /\ pc = "steady"
    /\ state' = OneCall(state, NIters(store_size, 0, nsteps))
    /\ runs' = Min(runs + 1, SettleSteps)
    /\ UNCHANGED <<pc, cfgVars, result, runVars, solverVars, file, asked,
                   histVars>>

NextSteady == SteadyStep

SpecSteady == InitSteady /\ [][NextSteady]_vars

\* SettleSteps calls of run or more have returned
Settled == pc = "steady" /\ runs = SettleSteps

\* the steady state of the matched divider: A/2 and A/(2*sqrt(L/C))
SteadyVoltage == FHalf(source.amplitude)
SteadyCurrent ==
    FDiv(source.amplitude,
         FMul(2 * One, FSqrt(FDiv(source.inductance, source.capacitance))))

\* every voltage is A/2 and every current A/(2*sqrt(L/C))
ExactSteady ==
    /\ \A c \in 1..Len(state.voltages) : state.voltages[c] = SteadyVoltage
    /\ \A c \in 1..Len(state.currents) : state.currents[c] = SteadyCurrent

\* the rounding of the coefficients' reciprocals, carried through the
\* update: an eighth of the amplitude
Tolerance == source.amplitude \div 8

\* every voltage and every current is within Tolerance of its steady value
NearSteady ==
    /\ \A c \in 1..Len(state.voltages) :
          Abs(state.voltages[c] - SteadyVoltage) <= Tolerance
    /\ \A c \in 1..Len(state.currents) :
          Abs(state.currents[c] - SteadyCurrent) <= Tolerance

Capacitances == {One, 4 * One}
\* inductance_fn, kinetic_inductance_fn and critical_current_fn together:
\* total inductances of 1 and 4, effective critical currents of 3/4, 1 and 2
KiCells ==
    {[ind |-> 0, ki_ind |-> One, crit_cur |-> (3 * One) \div 4],
     [ind |-> 3 * One, ki_ind |-> One, crit_cur |-> One \div 2],
     [ind |-> 3 * One, ki_ind |-> One, crit_cur |-> One]}
Conductances == {0, One}

\* LinearLine::new, the closures given by their values at the cells
LinearLineSampled(n, cf, lf, rf, gf) ==
    [npoints |-> n,
     cap |-> [z \in 1..n |-> cf[z]],
     ind |-> [z \in 1..n |-> lf[z]],
     res |-> [z \in 1..n |-> rf[z]],
     cond |-> [z \in 1..n |-> gf[z]]]

\* KiLine::new, the closures given by their values at the cells
KiLineNew(n, cf, lf, kf, jf) ==
    [npoints |-> n,
     cap |-> [z \in 1..n |-> cf[z]],
     ind0 |-> [z \in 1..n |-> FAdd(lf[z], kf[z])],
     crit_cur |->
        [z \in 1..n |->
            FMul(jf[z], FSqrt(FDiv(FAdd(lf[z], kf[z]), kf[z])))]]

\* a method's return value
Value(v) == [kind |-> "Ok", value |-> v]


InitLine ==
    /\ pc = "line"
    /\ \E n \in 1..MaxCells :
       \E cf \in [1..n -> Capacitances] :
       \E kc \in [1..n -> KiCells] :
       \E g \in Conductances :
         /\ tline = LinearLineSampled(n, cf,
                        [z \in 1..n |-> FAdd(kc[z].ind, kc[z].ki_ind)],
                        [z \in 1..n |-> 0], [z \in 1..n |-> g])
         /\ ki_line = KiLineNew(n, cf, [z \in 1..n |-> kc[z].ind],
                                [z \in 1..n |-> kc[z].ki_ind],
                                [z \in 1..n |-> kc[z].crit_cur])
    /\ init_state = <<>>
    /\ source = [inductance |-> One, capacitance |-> One, resistance |-> 0,
                 conductance |-> 0, amplitude |-> 4 * One, t_on |-> DeltaT]
    /\ terminator = [inductance |-> One, capacitance |-> One,
                     resistance |-> 0, conductance |-> 0]
    /\ sim_params = [delta_z |-> One, delta_t |-> DeltaT]
    /\ state = NoState
    /\ result = Returned("none")
    /\ desc = NoRun
    /\ nsteps = 0 /\ store_size = 0 /\ end_offset = 0 /\ full_offset = 0 /\ i = 0
    /\ voltages = <<>> /\ currents = <<>> /\ t_index = 0
    /\ file = NoFile
    /\ runs = 0 /\ asked = 0
    /\ state0 = NoState /\ queries = <<>> /\ written = {} /\ computes = <<>>
    /\ rowlog = <<>> /\ appended = [steps |-> 0, clean |-> TRUE]

\* what a call of a line's method leaves alone
LineFrame ==
    UNCHANGED <<cfgVars, state, nsteps, store_size, end_offset, full_offset,
                i, solverVars, file, runs, asked, histVars>>

\* `f32::sqrt(ind * cap).recip()`: a cell's phase velocity
PhaseVelocity(ind, cap) == FRecip(FSqrt(FMul(ind, cap)))

\* the reduce of max_phase_velocity over the first k cells, the closure
\* taking the other order: the smaller candidate is kept
RECURSIVE ReduceMin(_, _)
ReduceMin(items, k) ==
    IF k = 1 THEN items[1]
    ELSE LET accum == ReduceMin(items, k - 1)
             item == items[k]
         IN  IF accum <= item THEN accum ELSE item

\* `.reduce(|accum, item| if accum >= item { accum } else { item })` over
\* the first k cells
RECURSIVE Reduce(_, _)
Reduce(items, k) ==
    IF k = 1 THEN items[1]
    ELSE LET accum == Reduce(items, k - 1)
             item == items[k]
         IN  IF accum >= item THEN accum ELSE item

\* LinearLine::max_phase_velocity and KiLine::max_phase_velocity, of the
\* cells' inductances and capacitances
MaxPhaseVelocity(inds, caps) ==
    Reduce([z \in 1..Len(inds) |-> PhaseVelocity(inds[z], caps[z])], Len(inds))

LinearMaxPhaseVelocity ==
    /\ pc = "line"
    /\ pc' = "max_phase_velocity"
    /\ desc' = NoRun
    /\ result' = Value(MaxPhaseVelocity(tline.ind, tline.cap))
    /\ LineFrame

KiMaxPhaseVelocity ==
    /\ pc = "line"
    /\ pc' = "ki_max_phase_velocity"
    /\ desc' = NoRun
    /\ result' = Value(MaxPhaseVelocity(ki_line.ind0, ki_line.cap))
    /\ LineFrame
\* the voltages and currents the methods are called with
Volts == {0, One \div 2, One}
Currs == {-One, 0, 1, (3 * One) \div 8, One \div 2, One, 2 * One}

\* a call's arguments: the node's last value, the two flanking values of
\* the other array, and the cell
Call(last, flank0, flank1, index) ==
    [last |-> last, flank0 |-> flank0, flank1 |-> flank1, index |-> index]

\* KiLine::next_voltage with the flanking currents swapped
KiNextVoltageSwapped(last_volt, last_curr0, last_curr1, index, sp) ==
    LET d_ratio == DRatio(sp)
        c == At(ki_line.cap, index)
    IN  FMul(FRecip(FMul(d_ratio, c)),
             FAdd(FMul(FMul(d_ratio, c), last_volt),
                  FSub(last_curr1, last_curr0)))

\* KiLine::next_voltage at cell index
KiNextVoltage(last_volt, last_curr0, last_curr1, index, sp) ==
    LET d_ratio == DRatio(sp)
        c == At(ki_line.cap, index)
    IN  FMul(FRecip(FMul(d_ratio, c)),
             FAdd(FMul(FMul(d_ratio, c), last_volt),
                  FSub(last_curr0, last_curr1)))

\* f32::powi(2) and f32::powi(3), as the products the compiler makes of them
Powi2(x) == FMul(x, x)
Powi3(x) == FMul(FMul(x, x), x)

\* an f32 that is not finite (a division by zero's infinity or NaN): a
\* value beyond every finite value of the model
NonFinite == Pow2(MantBits + 6)

\* a / b, not finite when b is zero or an operand is not finite
FDivOrNonFinite(a, b) ==
    IF a = NonFinite \/ b = NonFinite \/ b = 0 THEN NonFinite ELSE FDiv(a, b)

\* one Newton iteration of a*x^3 + b*x^2 + c*x + d from this_guess
NewtonStep(a, b, c, d, this_guess) ==
    IF this_guess = NonFinite \/ d = NonFinite THEN NonFinite
    ELSE LET num ==
                 FAdd(FAdd(FAdd(FMul(a, Powi3(this_guess)),
                                FMul(b, Powi2(this_guess))),
                           FMul(c, this_guess)),
                      d)
             den ==
                 FAdd(FAdd(FMul(FMul(3 * One, a), Powi2(this_guess)),
                           FMul(FMul(2 * One, b), this_guess)),
                      c)
             q == FDivOrNonFinite(num, den)
         IN  IF q = NonFinite THEN NonFinite ELSE FSub(this_guess, q)

\* `for _ in 0..n`: n iterations from next_guess
RECURSIVE Newton(_, _, _, _, _, _)
Newton(a, b, c, d, next_guess, n) ==
    IF n = 0 THEN next_guess
    ELSE NewtonStep(a, b, c, d, Newton(a, b, c, d, next_guess, n - 1))

\* the constant term of the cubic of KiLine::next_current
CubicD(i_crit, delta_t, dv, delta_z, ind, last_curr) ==
    LET q == FDivOrNonFinite(FMul(FMul(Powi2(i_crit), delta_t), dv),
                             FMul(delta_z, ind))
    IN  IF q = NonFinite THEN NonFinite
        ELSE FSub(FSub(q, FMul(Powi2(i_crit), last_curr)), Powi3(last_curr))

\* KiLine::next_current with two iterations for the three
KiNextCurrentTwoIterations(last_volt0, last_volt1, last_curr, index, sp) ==
    LET ind == At(ki_line.ind0, index)
        i_crit == At(ki_line.crit_cur, index)
        dv == FSub(last_volt1, last_volt0)
        c == FSub(Powi2(i_crit), Powi2(last_curr))
        d == CubicD(i_crit, sp.delta_t, dv, sp.delta_z, ind, last_curr)
    IN  Newton(One, last_curr, c, d, last_curr, 2)

\* KiLine::next_current with the flanking voltages' sum for their difference
KiNextCurrentSumV(last_volt0, last_volt1, last_curr, index, sp) ==
    LET ind == At(ki_line.ind0, index)
        i_crit == At(ki_line.crit_cur, index)
        dv == FAdd(last_volt1, last_volt0)
        c == FSub(Powi2(i_crit), Powi2(last_curr))
        d == CubicD(i_crit, sp.delta_t, dv, sp.delta_z, ind, last_curr)
    IN  Newton(One, last_curr, c, d, last_curr, 3)

\* KiLine::next_current at cell index
KiNextCurrent(last_volt0, last_volt1, last_curr, index, sp) ==
    LET ind == At(ki_line.ind0, index)
        i_crit == At(ki_line.crit_cur, index)
        delta_z == sp.delta_z
        delta_t == sp.delta_t
        dv == FSub(last_volt1, last_volt0)
        a == One
        b == last_curr
        c == FSub(Powi2(i_crit), Powi2(last_curr))
        d == CubicD(i_crit, delta_t, dv, delta_z, ind, last_curr)
    IN  Newton(a, b, c, d, last_curr, 3)

LinearNextVoltage ==
    /\ pc = "line"
    /\ pc' = "next_voltage"
    /\ \E v \in Volts : \E c0, c1 \in {0, One} : \E k \in 0..(tline.npoints - 1) :
         /\ desc' = Call(v, c0, c1, k)
         /\ result' = Value(LineNextVoltage(v, c0, c1, k, sim_params))
    /\ LineFrame

KiLineNextVoltage ==
    /\ pc = "line"
    /\ pc' = "ki_next_voltage"
    /\ \E v \in Volts : \E c0, c1 \in {0, One} : \E k \in 0..(ki_line.npoints - 1) :
         /\ desc' = Call(v, c0, c1, k)
         /\ result' = Value(KiNextVoltage(v, c0, c1, k, sim_params))
    /\ LineFrame

KiLineNextCurrent ==
    /\ pc = "line"
    /\ pc' = "ki_next_current"
    /\ \E c \in Currs : \E v0, v1 \in {0, One} : \E k \in 0..(ki_line.npoints - 1) :
         /\ desc' = Call(c, v0, v1, k)
         /\ result' = Value(KiNextCurrent(v0, v1, c, k, sim_params))
    /\ LineFrame

NextLine ==
    \/ LinearMaxPhaseVelocity
    \/ KiMaxPhaseVelocity
    \/ LinearNextVoltage
    \/ KiLineNextVoltage
    \/ KiLineNextCurrent

SpecLine == InitLine /\ [][NextLine]_vars

(***************************************************************************)
(* The claims on the lines' methods.                                       *)
(***************************************************************************)
\* the cells' phase velocities
Velocities(inds, caps) ==
    [z \in 1..Len(inds) |-> PhaseVelocity(inds[z], caps[z])]

\* every cell has the first cell's inductance and capacitance
Uniform(inds, caps) ==
    \A z \in 1..Len(inds) : inds[z] = inds[1] /\ caps[z] = caps[1]

\* v is the largest of vs, and for a uniform line the value of every cell
IsMaxVelocity(v, inds, caps) ==
    LET vs == Velocities(inds, caps)
    IN  /\ \A z \in 1..Len(vs) : vs[z] <= v
        /\ \E z \in 1..Len(vs) : vs[z] = v
        /\ Uniform(inds, caps) =>
              \A z \in 1..Len(vs) : v = FRecip(FSqrt(FMul(inds[z], caps[z])))

\* C12: max_phase_velocity returns the largest of the cells' values of
\* 1/sqrt(inductance*capacitance), and for a uniform line exactly the
\* per-cell value, whatever the cell count, for the linear line and for
\* the kinetic-inductance line (over its total inductance).
C12_MaxPhaseVelocity ==
    /\ pc = "max_phase_velocity" =>
          IsMaxVelocity(result.value, tline.ind, tline.cap)
    /\ pc = "ki_max_phase_velocity" =>
          IsMaxVelocity(result.value, ki_line.ind0, ki_line.cap)

\* C12's case: a uniform kinetic-inductance line of several cells
C12_Witness ==
    /\ pc = "ki_max_phase_velocity"
    /\ ki_line.npoints >= 2
    /\ Uniform(ki_line.ind0, ki_line.cap)
    /\ result.value # One

\* a call of KiLine::next_current has returned: its arguments
CurrentCalled == pc = "ki_next_current"
LastCurr == desc.last
DeltaV == FSub(desc.flank1, desc.flank0)
ICrit == At(ki_line.crit_cur, desc.index)
Ind0 == At(ki_line.ind0, desc.index)

\* C13: the kinetic-inductance current update with previous current 0,
\* effective critical current 1 and equal flanking voltages returns
\* exactly 0, for every (positive) inductance of the cell.
C13_TrivialRoot ==
    (CurrentCalled /\ LastCurr = 0 /\ ICrit = One
        /\ desc.flank0 = desc.flank1 /\ Ind0 > 0)
    => result.value = 0

\* C13's case: such a call, between non-zero voltages, in a cell whose
\* inductance is not 1
C13_Witness ==
    /\ CurrentCalled /\ LastCurr = 0 /\ ICrit = One
    /\ desc.flank0 = desc.flank1 /\ desc.flank0 # 0
    /\ Ind0 > One
    /\ result.value = 0

\* the cubic x^3 + b*x^2 + c*x + d and its derivative at x
Cubic(b, c, d, x) ==
    FAdd(FAdd(FAdd(Powi3(x), FMul(b, Powi2(x))), FMul(c, x)), d)
CubicSlope(b, c, x) ==
    FAdd(FAdd(FMul(3 * One, Powi2(x)), FMul(FMul(2 * One, b), x)), c)

\* the Newton iterate after x, not finite where the slope is zero
Iterate(b, c, d, x) ==
    IF x = NonFinite \/ d = NonFinite THEN NonFinite
    ELSE IF CubicSlope(b, c, x) = 0 THEN NonFinite
    ELSE FSub(x, FDiv(Cubic(b, c, d, x), CubicSlope(b, c, x)))

\* the third iterate from the seed, whether or not the iterates have settled
ThirdIterate(b, c, d, seed) ==
    Iterate(b, c, d, Iterate(b, c, d, Iterate(b, c, d, seed)))

\* the claim's c and d of the call that returned
ClaimedC == FSub(Powi2(ICrit), Powi2(LastCurr))
ClaimedD ==
    CubicD(ICrit, sim_params.delta_t, DeltaV, sim_params.delta_z, Ind0, LastCurr)

\* C14 as stated: the update returns the third Newton iterate, seeded at the
\* previous current, of the cubic with b = -I_prev.
C14_NewtonCubicMinusB ==
    CurrentCalled =>
        result.value = ThirdIterate(-LastCurr, ClaimedC, ClaimedD, LastCurr)

\* C14: the update returns the third Newton iterate, seeded at the previous
\* current and with no convergence check, of the cubic I^3 + b*I^2 + c*I + d
\* with b = +I_prev, c = I_crit^2 - I_prev^2 and
\* d = I_crit^2*delta_t*deltaV/(delta_z*L) - I_crit^2*I_prev - I_prev^3,
\* deltaV the second flanking voltage less the first.
C14_NewtonCubic ==
    CurrentCalled =>
        result.value = ThirdIterate(LastCurr, ClaimedC, ClaimedD, LastCurr)

\* C14's case: a call with a current and a voltage difference, whose second
\* and third iterates differ
C14_Witness ==
    /\ CurrentCalled
    /\ LastCurr # 0 /\ DeltaV # 0
    /\ result.value # NonFinite
    /\ result.value #
          Iterate(LastCurr, ClaimedC, ClaimedD,
                  Iterate(LastCurr, ClaimedC, ClaimedD, LastCurr))

(***************************************************************************)
(* The claims on the waveform's query times (specification Spec) and on    *)
(* the batch loop's termination (specification SpecBatch).                 *)
(***************************************************************************)
\* the steps of the run whose source voltage is computed: those of the
\* batches folded in, and of the batch that compute has returned for
StepsQueried ==
    IF RunSucceeded THEN nsteps
    ELSE IF pc = "persist" THEN EndIndex(store_size, i, nsteps)
    ELSE Len(queries)

\* C15: the waveform is queried once per step: step k of the run (from 0,
\* counted across the batches) queries it at t0 + k*delta_t, t0 the state's
\* time when the run began, and every query is later by delta_t than the
\* one before it.
C15_QueryTimes ==
    (InRun \/ RunSucceeded) =>
        /\ Len(queries) = StepsQueried
        /\ \A k \in 1..Len(queries) :
              queries[k] = FAdd(state0.time, FMul(AsF32(k - 1), sim_params.delta_t))
        /\ \A k \in 2..Len(queries) :
              /\ queries[k] > queries[k - 1]
              /\ queries[k] = FAdd(queries[k - 1], sim_params.delta_t)

\* the linear line of the call is lossless at the cell called
LosslessCell == At(tline.cond, desc.index) = 0

\* C16: for the same cell capacitance, previous voltage, flanking currents
\* and simulation parameters, KiLine::next_voltage returns what
\* LinearLine::next_voltage returns at a cell of zero conductance, whichever
\* of the two was called
C16_KiVoltageIsLosslessLinear ==
    /\ (pc = "ki_next_voltage" /\ LosslessCell) =>
          result.value = LineNextVoltage(desc.last, desc.flank0, desc.flank1,
                                         desc.index, sim_params)
    /\ (pc = "next_voltage" /\ LosslessCell) =>
          result.value = KiNextVoltage(desc.last, desc.flank0, desc.flank1,
                                       desc.index, sim_params)

\* the kinetic-inductance line was called at a lossless cell with a voltage
\* and a difference of currents, and the voltage moved
C16_Witness ==
    /\ pc = "ki_next_voltage"
    /\ LosslessCell
    /\ At(ki_line.cap, desc.index) = At(tline.cap, desc.index)
    /\ desc.last # 0
    /\ desc.flank0 # desc.flank1
    /\ result.value # desc.last

\* the cubic of the call that returned and its derivative, at the previous
\* current
CubicAtLastCurr == Cubic(LastCurr, ClaimedC, ClaimedD, LastCurr)
SlopeAtLastCurr == CubicSlope(LastCurr, ClaimedC, LastCurr)

\* C17: whenever the two flanking voltages are equal and the effective
\* critical current is non-zero, the previous current is an exact root of
\* the cubic as coded, the derivative there is non-zero, and the three
\* Newton iterations return the previous current unchanged, for every
\* previous current.
C17_NoVoltageDifferenceKeepsCurrent ==
    (CurrentCalled /\ desc.flank0 = desc.flank1 /\ ICrit # 0) =>
        /\ CubicAtLastCurr = 0
        /\ SlopeAtLastCurr # 0
        /\ result.value = LastCurr

\* the per-batch step cap of the run, and the ceiling of n / d for d >= 1
BatchCap == store_size - 1
CeilDiv(n, d) == (n + d - 1) \div d

\* C18: for every nsteps >= 1 and every cell count, the per-batch step cap
\* store_size-1 is at least 1, run does not panic, and it returns after
\* ceil(nsteps/(store_size-1)) invocations of the solver, each of which
\* advances at least one step.
C18_RunTerminatesInCeilBatches ==
    (BatchRunning /\ nsteps >= 1) =>
        /\ BatchCap >= 1
        /\ pc # "batch_panicked"
        /\ Len(computes) <= CeilDiv(nsteps, BatchCap)
        /\ \A k \in 1..Len(computes) : computes[k] >= 1
        /\ pc = "batch_done" => Len(computes) = CeilDiv(nsteps, BatchCap)

====
